---- MODULE Spec2Model ----
(***************************************************************************)
(* Edmonds-Karp maximum flow (src/codeFinal.py, src/codeNew.py,            *)
(* src/code.py).  The three files hold the same edmonds_karp(); they       *)
(* differ in the flow derivation (clamped with max(0, .) in code.py and    *)
(* codeNew.py, unclamped in codeFinal.py) and in the capacity tables they  *)
(* run on.                                                                 *)
(*                                                                         *)
(* A Python list of lists is modelled as a heap of row objects: the        *)
(* caller's capacity table is rows 0..n-1 of the heap, and the solver's    *)
(* residual table is the rows that `[row[:] for row in capacity]` makes.   *)
(* Python's indexing is kept: index -1 is the last element, and an index   *)
(* outside [-n, n) raises IndexError.                                      *)
(***************************************************************************)
EXTENDS Integers, Sequences, FiniteSets

(* ------------------------------ bounds -------------------------------- *)

\* The capacities of a generated forward table add up to at most this.
MaxTotal == 5

\* The capacities of a generated small table add up to at most this.
SmallTotal == 2

\* A run is followed for this many augmentations.  No run on a valid network
\* of these bounds gets there; a run that never returns (source -1 and sink
\* n-1 name the same node, which lies on a cycle) is cut here.
IterationLimit == 8

(* ------------------------- program constants -------------------------- *)

\* len(names): every table of the three files has this many nodes.
NumNodes == 5

\* SOURCE and SINK of the scenario runs.
SOURCE == 0

SINK == 4

\* The "not discovered" sentinel of parent[].
Undiscovered == -1

\* float("inf"), the start value of path_flow.
Inf == [finite |-> FALSE, value |-> 0]

Fin(k) == [finite |-> TRUE, value |-> k]

\* Builds a table (row index -> row) from a sequence of rows, 0-based.
Table(rows) == [u \in 0..(Len(rows) - 1) |-> [v \in 0..(Len(rows[u + 1]) - 1) |-> rows[u + 1][v + 1]]]

\* The table named capacity in code.py and codeNew.py.
capacity_example ==
    Table(<< <<0, 16, 13, 0, 0>>,
             <<0, 0, 10, 12, 4>>,
             <<0, 4, 0, 0, 14>>,
             <<0, 0, 9, 0, 20>>,
             <<0, 0, 0, 0, 0>> >>)

\* The network as the specification lists it: capacity_example without v1->t.
capacity_listed ==
    Table(<< <<0, 16, 13, 0, 0>>,
             <<0, 0, 10, 12, 0>>,
             <<0, 4, 0, 0, 14>>,
             <<0, 0, 9, 0, 20>>,
             <<0, 0, 0, 0, 0>> >>)

capacity_200 ==
    Table(<< <<0, 100, 0, 0, 0>>,
             <<0, 0, 80, 0, 0>>,
             <<0, 0, 0, 70, 0>>,
             <<0, 0, 0, 0, 90>>,
             <<0, 0, 0, 0, 0>> >>)

capacity_201 ==
    Table(<< <<0, 100, 0, 0, 0>>,
             <<0, 0, 60, 0, 0>>,
             <<0, 0, 0, 70, 0>>,
             <<0, 0, 0, 0, 90>>,
             <<0, 0, 0, 0, 0>> >>)

capacity_202 ==
    Table(<< <<0, 100, 0, 50, 0>>,
             <<0, 0, 60, 0, 0>>,
             <<0, 0, 0, 70, 0>>,
             <<0, 0, 0, 0, 90>>,
             <<0, 0, 0, 0, 0>> >>)

ScenarioTables == {capacity_example, capacity_listed, capacity_200, capacity_201, capacity_202}

(* --------------------------- generated inputs -------------------------- *)

ZeroTable(nn) == [u \in 0..(nn - 1) |-> [v \in 0..(nn - 1) |-> 0]]

\* The cells (row-major positions) of a table of NumNodes nodes.
AllCells == 0..(NumNodes * NumNodes - 1)

\* The cells of the forward networks: no self-loop, no edge into SOURCE,
\* no edge out of SINK.
ForwardCells ==
    {q \in AllCells : /\ q \div NumNodes # q % NumNodes
                      /\ q \div NumNodes # SINK
                      /\ q % NumNodes # SOURCE}

\* A set of cells in ascending order.
RECURSIVE Ascending(_)
Ascending(S) ==
    IF S = {} THEN <<>>
    ELSE LET m == CHOOSE x \in S : \A y \in S : x <= y
         IN  <<m>> \o Ascending(S \ {m})

ForwardSeq == Ascending(ForwardCells)

AllSeq == Ascending(AllCells)

\* w units of capacity, each put on the cell of a position of cellseq or (0)
\* left out; ascending, so that each table is drawn once.
Units(w, cellseq) ==
    {f \in [1..w -> 0..Len(cellseq)] : \A i \in 1..(w - 1) : f[i] <= f[i + 1]}

\* The table that the units f make: an entry is the number of its units.
TableOf(f, cellseq) ==
    [u \in 0..(NumNodes - 1) |-> [v \in 0..(NumNodes - 1) |->
        Cardinality({i \in DOMAIN f : f[i] # 0 /\ cellseq[f[i]] = u * NumNodes + v})]]

(* -------------------------------- state -------------------------------- *)

VARIABLES
    pc,          \* "start", "loop" (about to call bfs), "augment" (bfs returned
                 \* True), "done" (returned), "raised" (IndexError), "hung"
    n,           \* len(capacity)
    source,      \* the arguments of the call
    sink,
    heap,        \* row object -> row; rows 0..n-1 are the caller's table
    parent,      \* parent[], shared by bfs() and the loop
    max_flow,
    path_flow,   \* the bottleneck of the last augmentation
    pushed,      \* history: pushed[x][y], total of the bottlenecks applied on x->y
    iterations,  \* history: the number of augmentations so far
    capacity0    \* history: the caller's table as it was at the call

vars == <<pc, n, source, sink, heap, parent, max_flow, path_flow, pushed, iterations, capacity0>>

Nodes == 0..(n - 1)

\* Python's list indexing: a negative index counts from the end.
Norm(i, nn) == IF i < 0 THEN i + nn ELSE i

\* An index list[i] accepts.
InRange(i, nn) == -nn <= i /\ i < nn

\* (mutant) `[row for row in capacity]`: residual[u] is the caller's row.
AliasRow(u, nn) == u

\* The row object residual[u] is: `row[:]` makes a new object per row.
ResidualRow(u, nn) == nn + u

\* The caller's table, read through the heap.
capacity == [u \in Nodes |-> heap[u]]

\* The solver's table, read through the heap.
residual == [u \in Nodes |-> heap[ResidualRow(u, n)]]

(* ------------------------------- bfs() --------------------------------- *)

\* (mutant) residual[u][v] >= 0
HasRoomOrNone(r) == r >= 0

\* residual[u][v] > 0
HasRoom(r) == r > 0

\* (mutant) queue.appendleft(v)
QueuePutFront(queue, v) == <<v>> \o queue

\* queue.append(v)
QueuePut(queue, v) == Append(queue, v)

\* `for v in range(n)` of one dequeued u, from v on, with the early return.
RECURSIVE ScanRow(_, _, _, _, _, _, _)
ScanRow(res, par, queue, u, v, snk, nn) ==
    IF v = nn THEN [found |-> FALSE, parent |-> par, queue |-> queue]
    ELSE IF par[v] = Undiscovered /\ HasRoom(res[Norm(u, nn)][v])
         THEN IF v = snk
              THEN [found |-> TRUE, parent |-> [par EXCEPT ![v] = u],
                    queue |-> QueuePut(queue, v)]
              ELSE ScanRow(res, [par EXCEPT ![v] = u], QueuePut(queue, v),
                           u, v + 1, snk, nn)
         ELSE ScanRow(res, par, queue, u, v + 1, snk, nn)

\* `while queue:`
RECURSIVE BfsLoop(_, _, _, _, _)
BfsLoop(res, par, queue, snk, nn) ==
    IF queue = <<>> THEN [found |-> FALSE, parent |-> par]
    ELSE LET r == ScanRow(res, par, Tail(queue), Head(queue), 0, snk, nn)
         IN  IF r.found THEN [found |-> TRUE, parent |-> r.parent]
             ELSE BfsLoop(res, r.parent, r.queue, snk, nn)

\* bfs(): parent[] is reset, the source is its own parent, then the search.
bfs(res, src, snk, nn) ==
    BfsLoop(res,
            [[i \in 0..(nn - 1) |-> Undiscovered] EXCEPT ![Norm(src, nn)] = src],
            <<src>>, snk, nn)

(* ---------------------------- augmentation ----------------------------- *)

\* (mutant) path_flow = residual[u][v]
Min2Last(pf, r) == Fin(r)

\* min(path_flow, residual[u][v])
Min2(pf, r) == IF ~pf.finite THEN Fin(r) ELSE IF r < pf.value THEN Fin(r) ELSE pf

\* Whether the walk `while v != source: v = parent[v]` from v ends within k
\* steps.  parent[] has nn entries, so a walk of more than nn steps repeats a
\* node and never ends.
RECURSIVE WalkEnds(_, _, _, _, _)
WalkEnds(par, v, src, nn, k) ==
    IF v = src THEN TRUE
    ELSE IF k = 0 THEN FALSE
    ELSE WalkEnds(par, par[Norm(v, nn)], src, nn, k - 1)

\* (mutant) the bottleneck is taken from the edge into the sink alone.
BottleneckSinkEdge(res, par, v, src, nn, pf) ==
    IF v = src THEN pf ELSE Fin(res[Norm(par[Norm(v, nn)], nn)][Norm(v, nn)])

\* First loop: the bottleneck of the path parent[] holds, walked back from v.
RECURSIVE Bottleneck(_, _, _, _, _, _)
Bottleneck(res, par, v, src, nn, pf) ==
    IF v = src THEN pf
    ELSE LET u == par[Norm(v, nn)]
         IN  Bottleneck(res, par, u, src, nn,
                        Min2(pf, res[Norm(u, nn)][Norm(v, nn)]))

\* residual[u][v] -= path_flow
Decrease(r, pf) == r - pf

\* (mutant) the reverse entry is left alone.
IncreaseNone(r, pf) == r

\* residual[v][u] += path_flow
Increase(r, pf) == r + pf

\* Second loop: the two updates per path edge, walked back from v.
RECURSIVE ApplyPath(_, _, _, _, _, _)
ApplyPath(res, par, v, src, nn, pf) ==
    IF v = src THEN res
    ELSE LET u  == par[Norm(v, nn)]
             a  == Norm(u, nn)
             b  == Norm(v, nn)
             r1 == [res EXCEPT ![a][b] = Decrease(@, pf)]
             r2 == [r1 EXCEPT ![b][a] = Increase(@, pf)]
         IN  ApplyPath(r2, par, u, src, nn, pf)

\* History of the second loop: the bottleneck is added on every path edge.
RECURSIVE RecordPath(_, _, _, _, _, _)
RecordPath(psh, par, v, src, nn, pf) ==
    IF v = src THEN psh
    ELSE LET u == par[Norm(v, nn)]
         IN  RecordPath([psh EXCEPT ![Norm(u, nn)][Norm(v, nn)] = @ + pf],
                        par, u, src, nn, pf)

(* --------------------------- flow derivation --------------------------- *)

\* compute_forward_flow of codeFinal.py: no clamp.
compute_forward_flow(cap, res) ==
    [u \in DOMAIN cap |-> [v \in DOMAIN cap |->
        IF cap[u][v] > 0 THEN cap[u][v] - res[u][v] ELSE 0]]

Max2(a, b) == IF a > b THEN a ELSE b

\* compute_forward_flow of codeNew.py and forward_flow of code.py: clamped.
forward_flow(cap, res) ==
    [u \in DOMAIN cap |-> [v \in DOMAIN cap |->
        IF cap[u][v] > 0 THEN Max2(0, cap[u][v] - res[u][v]) ELSE 0]]

(* ------------------------------- inputs -------------------------------- *)

\* The input the specification calls valid.
Valid ==
    /\ source \in Nodes /\ sink \in Nodes /\ source # sink
    /\ \A u, v \in Nodes : capacity0[u][v] >= 0

\* The scenario runs of the three files and of the listed network.
ScenarioInput ==
    /\ capacity0 \in ScenarioTables
    /\ source = SOURCE
    /\ sink = SINK

\* Networks without self-loops, run from SOURCE to SINK.
ForwardInput ==
    /\ \E f \in Units(MaxTotal, ForwardSeq) : capacity0 = TableOf(f, ForwardSeq)
    /\ source = SOURCE
    /\ sink = SINK

\* Smaller networks, self-loops included, run between any two nodes, the
\* same node twice included.
SmallInput ==
    /\ \E f \in Units(SmallTotal, AllSeq) : capacity0 = TableOf(f, AllSeq)
    /\ source \in 0..(NumNodes - 1)
    /\ sink \in 0..(NumNodes - 1)

\* SOURCE or SINK replaced by an index that range(n) does not hold.
OutOfRangeInput ==
    /\ \E f \in Units(SmallTotal, AllSeq) : capacity0 = TableOf(f, AllSeq)
    /\ \/ source = NumNodes /\ sink = SINK
       \/ source = SOURCE /\ sink \in {-1, NumNodes}

\* SOURCE replaced by -1, which Python reads as the last node.
WrappedSourceInput ==
    /\ \E f \in Units(SmallTotal + 1, AllSeq) : capacity0 = TableOf(f, AllSeq)
    /\ source = -1
    /\ sink = SINK

\* A small forward network with one entry made negative, run from SOURCE to
\* SINK.
NegativeInput ==
    /\ \E f \in Units(SmallTotal, ForwardSeq), q \in ForwardCells :
          capacity0 = [TableOf(f, ForwardSeq) EXCEPT ![q \div NumNodes][q % NumNodes] = -1]
    /\ source = SOURCE
    /\ sink = SINK

Init ==
    /\ pc = "start"
    /\ \/ ScenarioInput \/ ForwardInput \/ SmallInput
       \/ OutOfRangeInput \/ WrappedSourceInput \/ NegativeInput
    /\ n = Cardinality(DOMAIN capacity0)
    /\ heap = capacity0
    /\ parent = <<>>
    /\ max_flow = 0
    /\ path_flow = Inf
    /\ pushed = ZeroTable(n)
    /\ iterations = 0

(* ------------------------------- actions ------------------------------- *)

\* Entry of edmonds_karp: residual is made, parent = [-1] * n, max_flow = 0.
Call ==
    /\ pc = "start"
    /\ pc' = "loop"
    /\ heap' = [r \in 0..(2 * n - 1) |-> IF r < n THEN heap[r] ELSE heap[r - n]]
    /\ parent' = [i \in Nodes |-> Undiscovered]
    /\ max_flow' = 0
    /\ UNCHANGED <<n, source, sink, path_flow, pushed, iterations, capacity0>>

\* `while bfs():` with a source that parent[] accepts.
Bfs ==
    /\ pc = "loop"
    /\ InRange(source, n)
    /\ LET r == bfs(residual, source, sink, n)
       IN  /\ parent' = r.parent
           /\ pc' = IF r.found THEN "augment" ELSE "done"
    /\ UNCHANGED <<n, source, sink, heap, max_flow, path_flow, pushed, iterations, capacity0>>

\* `parent[source] = source` raises IndexError: the call ends with no result.
BfsRaises ==
    /\ pc = "loop"
    /\ ~InRange(source, n)
    /\ pc' = "raised"
    /\ UNCHANGED <<n, source, sink, heap, parent, max_flow, path_flow, pushed, iterations, capacity0>>

\* The body of the while loop: bottleneck, residual updates, max_flow.
Augment ==
    /\ pc = "augment"
    /\ iterations < IterationLimit
    /\ WalkEnds(parent, sink, source, n, n)
    /\ LET pf  == Bottleneck(residual, parent, sink, source, n, Inf)
           res == ApplyPath(residual, parent, sink, source, n, pf.value)
       IN  /\ path_flow' = pf
           /\ heap' = [r \in DOMAIN heap |->
                          IF \E u \in Nodes : ResidualRow(u, n) = r
                          THEN res[CHOOSE u \in Nodes : ResidualRow(u, n) = r]
                          ELSE heap[r]]
           /\ pushed' = RecordPath(pushed, parent, sink, source, n, pf.value)
           /\ max_flow' = max_flow + pf.value
    /\ iterations' = iterations + 1
    /\ pc' = "loop"
    /\ UNCHANGED <<n, source, sink, parent, capacity0>>

\* The first `while v != source` walks a cycle of parent[] and never ends.
AugmentHangs ==
    /\ pc = "augment"
    /\ ~WalkEnds(parent, sink, source, n, n)
    /\ pc' = "hung"
    /\ UNCHANGED <<n, source, sink, heap, parent, max_flow, path_flow, pushed, iterations, capacity0>>

Next == Call \/ Bfs \/ BfsRaises \/ Augment \/ AugmentHangs

Spec == Init /\ [][Next]_vars

(* ------------------------- what the claims use ------------------------- *)

\* The sum of t[u][v] over the pairs <<u, v>> of P.
RECURSIVE SumCells(_, _)
SumCells(t, P) ==
    IF P = {} THEN 0
    ELSE LET p == CHOOSE x \in P : TRUE
         IN  t[p[1]][p[2]] + SumCells(t, P \ {p})

\* The node sets that separate source from sink.
Cuts == {S \in SUBSET Nodes : source \in S /\ sink \notin S}

CutCapacity(S) == SumCells(capacity0, S \X (Nodes \ S))

Inflow(flow, w) == SumCells(flow, Nodes \X {w})

Outflow(flow, w) == SumCells(flow, {w} \X Nodes)

\* The nodes within k positive-residual edges of src.
RECURSIVE Within(_, _, _)
Within(res, src, k) ==
    IF k = 0 THEN {src}
    ELSE LET W == Within(res, src, k - 1)
         IN  W \cup {v \in DOMAIN res : \E u \in W : res[u][v] > 0}

\* The fewest positive-residual edges from src to snk, -1 when there is no path.
Distance(res, src, snk) ==
    LET nn == Cardinality(DOMAIN res)
        ks == {k \in 0..nn : snk \in Within(res, src, k)}
    IN  IF ks = {} THEN -1 ELSE CHOOSE k \in ks : \A j \in ks : k <= j

\* The nodes that following parent[] back from v visits, v first, at most k + 1.
RECURSIVE PathBack(_, _, _, _)
PathBack(par, v, src, k) ==
    IF v = src \/ k = 0 THEN <<v>> ELSE <<v>> \o PathBack(par, par[v], src, k - 1)

Returned == pc = "done"

(* ------------------------------- claims -------------------------------- *)

\* C1: on a valid network the returned max_flow is the capacity of some cut
\* separating source from sink, and no such cut has a smaller capacity.
C1_MaxFlowIsMinCut ==
    (Valid /\ Returned) =>
        /\ \E S \in Cuts : CutCapacity(S) = max_flow
        /\ \A S \in Cuts : CutCapacity(S) >= max_flow

\* A run that returned a positive flow smaller than both trivial cuts.
C1_Witness ==
    /\ Valid /\ Returned /\ max_flow > 0
    /\ CutCapacity({source}) > max_flow
    /\ CutCapacity(Nodes \ {sink}) > max_flow

\* C2 (as claimed): on a valid network the flow that codeFinal.py's
\* compute_forward_flow derives is conserved at every node but source and sink.
C2_Conservation ==
    (Valid /\ Returned) =>
        LET flow == compute_forward_flow(capacity, residual)
        IN  \A w \in Nodes \ {source, sink} : Inflow(flow, w) = Outflow(flow, w)

\* C3 (as claimed): on a valid network the unclamped derived flow of every
\* original edge lies between 0 and the edge's capacity.
C3_DerivedFlowInRange ==
    (Valid /\ Returned) =>
        LET cap == capacity
            res == residual
        IN  \A u, v \in Nodes :
                cap[u][v] > 0 =>
                    /\ 0 <= cap[u][v] - res[u][v]
                    /\ cap[u][v] - res[u][v] <= cap[u][v]

\* C4 (as claimed): a call with malformed input fails before any search: it
\* never has a search result to act on, never returns, never hangs.
C4_MalformedFailsFirst ==
    ~Valid => pc \in {"start", "loop", "raised"}

\* C5: the caller's capacity table is, in every state of a call, what it was
\* at the call.
C5_CapacityUnchanged ==
    capacity = capacity0

\* A run on a valid network whose residual table has come to differ from the
\* capacity table.
C5_Witness ==
    Valid /\ Returned /\ max_flow > 0 /\ residual # capacity

\* C6: on a valid network the call terminates.  Every augmentation has a
\* finite, strictly positive bottleneck and strictly increases max_flow; max_flow
\* never exceeds the capacity that leaves the source, so the augmentations are
\* finitely many; and a call that has not returned always has its next step:
\* no IndexError, no endless walk back along parent[].
C6_Terminates ==
    /\ [][(Valid /\ pc = "augment") =>
            /\ pc' = "loop"
            /\ path_flow'.finite
            /\ path_flow'.value > 0
            /\ max_flow' = max_flow + path_flow'.value
            /\ max_flow' > max_flow]_vars
    /\ [](Valid => /\ max_flow <= CutCapacity({source})
                   /\ pc \in {"start", "loop", "augment", "done"}
                   /\ pc = "loop" => InRange(source, n)
                   /\ pc = "augment" => /\ WalkEnds(parent, sink, source, n, n)
                                        /\ iterations < IterationLimit)

\* A run on a valid network that returned after three augmentations or more.
C6_Witness ==
    Valid /\ Returned /\ iterations >= 3 /\ path_flow.finite /\ path_flow.value > 0

\* C7 (as claimed): on the listed network max_flow is 23.
C7_Listed23 ==
    (Returned /\ capacity0 = capacity_listed /\ source = SOURCE /\ sink = SINK) =>
        max_flow = 23

\* C7 (amended): on the listed network max_flow is 26, and on the capacity
\* table of code.py, which has v1->t = 4 besides, it is 29.
C7_Listed26 ==
    (Returned /\ source = SOURCE /\ sink = SINK) =>
        /\ capacity0 = capacity_listed => max_flow = 26
        /\ capacity0 = capacity_example => max_flow = 29

C7_Witness ==
    Returned /\ capacity0 = capacity_listed /\ source = SOURCE /\ sink = SINK
        /\ iterations = 3

\* C8: on capacity_202 max_flow is 90, the derived flow on D->E is 90 and the
\* derived flows on A->D and B->C add up to 90.
C8_Backup90 ==
    (Returned /\ capacity0 = capacity_202 /\ source = SOURCE /\ sink = SINK) =>
        LET flow == compute_forward_flow(capacity, residual)
        IN  /\ max_flow = 90
            /\ flow[3][4] = 90
            /\ flow[0][3] + flow[1][2] = 90

\* The run on capacity_202 returned, having used both paths.
C8_Witness ==
    /\ Returned /\ capacity0 = capacity_202 /\ source = SOURCE /\ sink = SINK
    /\ iterations = 2
    /\ pushed[0][3] > 0 /\ pushed[1][2] > 0

\* C9: at every loop boundary residual[u][v] is capacity[u][v] less what was
\* pushed on u->v plus what was pushed on v->u, so that residual[u][v] +
\* residual[v][u] stays capacity[u][v] + capacity[v][u].
C9_ResidualBookkeeping ==
    pc \in {"loop", "augment", "done"} =>
        LET res == residual
        IN  /\ res = [u \in Nodes |-> [v \in Nodes |->
                         capacity0[u][v] - pushed[u][v] + pushed[v][u]]]
            /\ \A u, v \in Nodes :
                   res[u][v] + res[v][u] = capacity0[u][v] + capacity0[v][u]

\* A loop boundary on a valid network after a push on an edge whose reverse
\* is an edge of the network too.
C9_Witness ==
    /\ Valid /\ pc = "loop" /\ iterations > 0
    /\ \E u, v \in Nodes : pushed[u][v] > 0 /\ capacity0[v][u] > 0

\* C10: on a valid network, when bfs() returns True parent[] leads back from
\* sink to source along a simple path of positive-residual edges with the
\* fewest edges any such path has; when it returns False there is no path.
C10_BfsShortestPath ==
    Valid =>
        /\ pc = "augment" =>
              LET res  == residual
                  path == PathBack(parent, sink, source, n)
                  len  == Len(path)
              IN  /\ path[1] = sink
                  /\ path[len] = source
                  /\ \A i, j \in 1..len : i # j => path[i] # path[j]
                  /\ \A i \in 1..(len - 1) : res[path[i + 1]][path[i]] > 0
                  /\ len - 1 = Distance(res, source, sink)
        /\ Returned => Distance(residual, source, sink) = -1

\* bfs() returned True on a residual table already changed by an augmentation,
\* where a longer path to the sink exists beside the one found.
C10_Witness ==
    /\ Valid /\ pc = "augment" /\ iterations > 0
    /\ Distance(residual, source, sink) = 2
    /\ \E u \in Nodes : residual[u][sink] > 0 /\ Distance(residual, source, u) = 2

====
